---- MODULE Spec2Model ----
(***************************************************************************)
(* Model of rpi-rf-mqtt.py: the MQTT <-> RF bridge.  The entities (Button, *)
(* Switch, LightSwitch), their message handlers, the on_connect and        *)
(* on_message callbacks and send_code are translated from the source.      *)
(* Every RF transmission (one call of send_code) and every MQTT publish    *)
(* made by a callback is recorded, in order, in the variable out.          *)
(***************************************************************************)
EXTENDS Integers, Sequences, FiniteSets, TLC

(* ------------------------------ bounds --------------------------------- *)

\* number of configured brightness codes of the modelled light (N)
NumLevels == 2

(* --------------------------- Python values ----------------------------- *)

\* Optional values: None is the empty tuple, a present value v is <<v>>
None == <<>>
Some(v) == <<v>>

Digits == <<"0", "1", "2", "3", "4", "5", "6", "7", "8", "9">>

\* str(i) for a one-digit integer
Str(i) == IF i < 0 THEN "-" \o Digits[(-i) + 1] ELSE Digits[i + 1]

\* the texts int() accepts (one digit, optional sign, leading zero,
\* surrounding blank) with the value it returns
IntLiterals ==
    {[text |-> Str(i), value |-> i] : i \in (-9)..9}
    \cup {[text |-> "0" \o Digits[i + 1], value |-> i] : i \in 0..9}
    \cup {[text |-> " " \o Digits[i + 1], value |-> i] : i \in 0..9}
    \cup {[text |-> "+" \o Digits[i + 1], value |-> i] : i \in 0..9}

\* int(payload) raises ValueError unless IsInt(payload)
IsInt(p) == \E l \in IntLiterals : l.text = p
ParseInt(p) == (CHOOSE l \in IntLiterals : l.text = p).value

\* list[i] with Python's 0-based index
PyIndex(list, i) == list[i + 1]

\* a dict is the sequence of its <<key, value>> items in insertion order
DictKeys(d) == [i \in 1..Len(d) |-> d[i][1]]
DictHas(d, key) == \E i \in 1..Len(d) : d[i][1] = key
DictGet(d, key) == d[CHOOSE i \in 1..Len(d) : d[i][1] = key][2]

\* d.update({key: value}); d | {key: value}
DictSet(d, key, value) ==
    IF DictHas(d, key)
    THEN [i \in 1..Len(d) |-> IF d[i][1] = key THEN <<key, value>> ELSE d[i]]
    ELSE Append(d, <<key, value>>)

RECURSIVE DictUpdate(_, _)
DictUpdate(d, other) ==
    IF other = <<>> THEN d
    ELSE DictUpdate(DictSet(d, Head(other)[1], Head(other)[2]), Tail(other))

RECURSIVE Join(_, _)
Join(strs, sep) ==
    IF strs = <<>> THEN ""
    ELSE IF Len(strs) = 1 THEN strs[1]
    ELSE strs[1] \o sep \o Join(Tail(strs), sep)

\* json.dumps of a dict whose values are already rendered
JsonDumps(d) ==
    "{" \o Join([i \in 1..Len(d) |-> d[i][1] \o ": " \o d[i][2]], ", ") \o "}"

(* --------------------------- configuration ----------------------------- *)

TopicPrefix == "rf"
DiscoveryPrefix == "homeassistant"
Hostname == "pi"
BirthTopic == "homeassistant/status"
BirthPayload == "online"
DefaultRfProtocol == 1
DefaultRfRepeat == 10

MacAddress == "00-00-00-00-00-01"

build_device_info ==
    << <<"identifiers", "[" \o Hostname \o "]">>,
       <<"name", Hostname>>,
       <<"connections", "[[mac, " \o MacAddress \o "]]">> >>

\* MqttEntity.__init__
MqttEntity(entity_id, name, icon, component) ==
    [ name |-> name,
      icon |-> icon,
      state_topic |-> TopicPrefix \o "/" \o Hostname \o "/" \o entity_id,
      command_topic |-> TopicPrefix \o "/" \o Hostname \o "/" \o entity_id \o "/set",
      discovery_topic |-> DiscoveryPrefix \o "/" \o component \o "/" \o Hostname
                            \o "/" \o entity_id \o "/config",
      unique_id |-> Hostname \o "_" \o entity_id,
      device |-> build_device_info ]

\* r1 @@ r2 restricted to records: the fields of both
Merge(r1, r2) ==
    [f \in DOMAIN r1 \cup DOMAIN r2 |-> IF f \in DOMAIN r2 THEN r2[f] ELSE r1[f]]

\* Button.__init__
Button(entity_id, name, icon, rf_code) ==
    Merge(MqttEntity(entity_id, name, icon, "button"),
          [ type |-> "button",
            rf_code |-> rf_code,
            rf_protocol |-> DefaultRfProtocol,
            rf_pulse_length |-> None,
            rf_repeat |-> DefaultRfRepeat ])

\* Switch.__init__
Switch(entity_id, name, icon, rf_code_on, rf_code_off) ==
    Merge(MqttEntity(entity_id, name, icon, "switch"),
          [ type |-> "switch",
            rf_code_on |-> rf_code_on,
            rf_code_off |-> rf_code_off,
            rf_protocol |-> DefaultRfProtocol,
            rf_pulse_length |-> None,
            rf_repeat |-> DefaultRfRepeat ])

\* LightSwitch.__init__ ; effects is None or Some(dict); the attributes
\* effects, effect_state_topic and effect_command_topic exist only when a
\* non-empty effects dict was configured
LightSwitch(entity_id, name, icon, rf_code_on, rf_code_off, brightness_codes, effects) ==
    LET base == Merge(MqttEntity(entity_id, name, icon, "light"),
                  [ type |-> "light",
                    state |-> None,
                    brightness_state |-> None,
                    rf_code_on |-> rf_code_on,
                    rf_code_off |-> rf_code_off,
                    rf_protocol |-> DefaultRfProtocol,
                    rf_pulse_length |-> None,
                    rf_repeat |-> DefaultRfRepeat,
                    brightness_state_topic |->
                        TopicPrefix \o "/" \o Hostname \o "/" \o entity_id \o "/brightness",
                    brightness_command_topic |->
                        TopicPrefix \o "/" \o Hostname \o "/" \o entity_id \o "/brightness/set",
                    brightness_codes |-> brightness_codes ])
    IN  IF effects # None /\ Len(effects[1]) > 0
        THEN Merge(base,
               [ effects |-> DictSet(effects[1], "Off", -1),
                 effect_state_topic |->
                     TopicPrefix \o "/" \o Hostname \o "/" \o entity_id \o "/effect",
                 effect_command_topic |->
                     TopicPrefix \o "/" \o Hostname \o "/" \o entity_id \o "/effect/set" ])
        ELSE base

HasAttr(e, f) == f \in DOMAIN e

\* the configured entities of the modelled installations
TheButton == Button("b1", "Bell", "mdi:bell", 1001)
TheSwitch == Switch("s1", "Plug", "mdi:plug", 2001, 2002)
BrightnessCodes == [i \in 1..NumLevels |-> 3100 + i]
EffectCodes == << <<"Rainbow", 3201>>, <<"Fade", 3202>> >>
TheLight == LightSwitch("l1", "Lamp", "mdi:lamp", 3001, 3002, BrightnessCodes, Some(EffectCodes))
PlainLight == LightSwitch("l2", "Strip", "mdi:led", 4001, 4002, BrightnessCodes, None)

\* create_entities for the two modelled configurations
create_entities(with_effects) ==
    IF with_effects THEN <<TheButton, TheSwitch, TheLight>>
                    ELSE <<TheButton, PlainLight, TheSwitch>>

(* ------------------------- observable effects -------------------------- *)

\* one call of send_code: the code handed to the transmitter and how the
\* call ended: "ok" (tx_code returned true), "fail" (tx_code returned false,
\* logged) or "unavailable" (RFDevice was not imported: NameError, logged).
\* A driver that raises another exception is outside these three outcomes.
TxEvent(rf_code, rf_protocol, rf_pulse_length, rf_repeat, rf) ==
    [ k |-> "tx", code |-> rf_code, protocol |-> rf_protocol,
      pulse_length |-> rf_pulse_length, repeat |-> rf_repeat, res |-> rf ]

\* one call of client.publish
Pub(topic, payload, retain) ==
    [ k |-> "pub", topic |-> topic, payload |-> payload, retain |-> retain ]

\* mutant: a transmission that tx_code reports as failed is tried again
send_codeRetry(rf_code, rf_protocol, rf_pulse_length, rf_repeat, rf) ==
    IF rf = "fail"
    THEN << TxEvent(rf_code, rf_protocol, rf_pulse_length,
                    IF rf_repeat = None THEN DefaultRfRepeat ELSE rf_repeat[1], rf),
            TxEvent(rf_code, rf_protocol, rf_pulse_length,
                    IF rf_repeat = None THEN DefaultRfRepeat ELSE rf_repeat[1], rf) >>
    ELSE << TxEvent(rf_code, rf_protocol, rf_pulse_length,
                    IF rf_repeat = None THEN DefaultRfRepeat ELSE rf_repeat[1], rf) >>

\* send_code: never raises for the three outcomes above, never retries
send_code(rf_code, rf_protocol, rf_pulse_length, rf_repeat, rf) ==
    << TxEvent(rf_code, rf_protocol, rf_pulse_length,
               IF rf_repeat = None THEN DefaultRfRepeat ELSE rf_repeat[1], rf) >>

\* Button.send_action, Switch.send_action, LightSwitch.send_action
send_action(e, rf_code, rf) ==
    send_code(rf_code, e.rf_protocol, e.rf_pulse_length, Some(e.rf_repeat), rf)

\* result of running (part of) a handler: the entity afterwards, the effects
\* emitted so far, and the exception that ended it ("none" if it returned)
Res(e, out, err) == [ent |-> e, out |-> out, err |-> err]

(* ------------------------------ Button --------------------------------- *)

\* mutant: the payload is not looked at
ButtonHandleMessageAnyPayload(e, topic, payload, rf) ==
    IF topic = e.command_topic
    THEN Res(e, send_action(e, e.rf_code, rf), "none")
    ELSE Res(e, <<>>, "none")

\* Button.handle_message
ButtonHandleMessage(e, topic, payload, rf) ==
    IF topic = e.command_topic /\ payload = "PRESS"
    THEN Res(e, send_action(e, e.rf_code, rf), "none")
    ELSE Res(e, <<>>, "none")

(* ------------------------------ Switch --------------------------------- *)

\* mutant: else instead of elif payload == "OFF"
SwitchHandleMessageElse(e, topic, payload, rf) ==
    IF topic = e.command_topic
    THEN IF payload = "ON"
         THEN Res(e, send_action(e, e.rf_code_on, rf)
                       \o <<Pub(e.state_topic, payload, TRUE)>>, "none")
         ELSE Res(e, send_action(e, e.rf_code_off, rf)
                       \o <<Pub(e.state_topic, "OFF", TRUE)>>, "none")
    ELSE Res(e, <<>>, "none")

\* Switch.handle_message
SwitchHandleMessage(e, topic, payload, rf) ==
    IF topic = e.command_topic
    THEN IF payload = "ON"
         THEN Res(e, send_action(e, e.rf_code_on, rf)
                       \o <<Pub(e.state_topic, payload, TRUE)>>, "none")
         ELSE IF payload = "OFF"
         THEN Res(e, send_action(e, e.rf_code_off, rf)
                       \o <<Pub(e.state_topic, payload, TRUE)>>, "none")
         ELSE Res(e, <<>>, "none")
    ELSE Res(e, <<>>, "none")

(* ---------------------------- LightSwitch ------------------------------ *)

\* run the next statements (result s) after the statements with result r:
\* nothing more happens once an exception was raised
Then(r, s) == IF r.err # "none" THEN r ELSE Res(s.ent, r.out \o s.out, s.err)

\* mutant: the level is used as the index (line 209 missing)
send_brightnessNoOffset(e, brightness, rf) ==
    IF Len(e.brightness_codes) > brightness /\ brightness >= 0
    THEN [out |-> send_action(e, PyIndex(e.brightness_codes, brightness), rf),
          success |-> TRUE]
    ELSE [out |-> <<>>, success |-> FALSE]

\* LightSwitch.send_brightness: the transmission and the success flag
send_brightness(e, brightness, rf) ==
    IF Len(e.brightness_codes) > brightness - 1 /\ brightness - 1 >= 0
    THEN [out |-> send_action(e, PyIndex(e.brightness_codes, brightness - 1), rf),
          success |-> TRUE]
    ELSE [out |-> <<>>, success |-> FALSE]

\* lines 218-220 of set_brightness, sb being what send_brightness returned;
\* a light without effect_state_topic raises AttributeError at line 220
SetBrightnessPublish(e, brightness, sb) ==
    IF sb.success
    THEN IF HasAttr(e, "effect_state_topic")
         THEN Res(e, sb.out \o <<Pub(e.brightness_state_topic, Str(brightness), TRUE),
                                 Pub(e.effect_state_topic, "OFF", TRUE)>>, "none")
         ELSE Res(e, sb.out \o <<Pub(e.brightness_state_topic, Str(brightness), TRUE)>>,
                  "AttributeError")
    ELSE Res(e, sb.out, "none")

\* mutant: the level is remembered and a level equal to the remembered one
\* is not sent again
set_brightnessDedup(e, brightness, rf) ==
    IF e.brightness_state = Some(brightness) THEN Res(e, <<>>, "none")
    ELSE SetBrightnessPublish([e EXCEPT !.brightness_state = Some(brightness)], brightness,
                              send_brightness(e, brightness, rf))

\* LightSwitch.set_brightness
set_brightness(e, brightness, rf) ==
    SetBrightnessPublish(e, brightness, send_brightness(e, brightness, rf))

\* mutant: only the first message on the own state topic is taken over
LightObserveStateOnce(e, topic, payload) ==
    IF topic = e.state_topic /\ e.state = None
    THEN Res([e EXCEPT !.state = Some(payload)], <<>>, "none")
    ELSE Res(e, <<>>, "none")

\* lines 173-174: observe the own state topic
LightObserveState(e, topic, payload) ==
    IF topic = e.state_topic THEN Res([e EXCEPT !.state = Some(payload)], <<>>, "none")
                             ELSE Res(e, <<>>, "none")

\* lines 175-176: observe the own brightness state topic
LightObserveBrightness(e, topic, payload) ==
    IF topic = e.brightness_state_topic
    THEN IF IsInt(payload)
         THEN Res([e EXCEPT !.brightness_state = Some(ParseInt(payload))], <<>>, "none")
         ELSE Res(e, <<>>, "ValueError")
    ELSE Res(e, <<>>, "none")

\* lines 178-187: ON / OFF command
LightCommand(e, topic, payload, rf) ==
    IF topic = e.command_topic
    THEN IF payload = "ON"
         THEN Res(e, send_action(e, e.rf_code_on, rf)
                       \o (IF e.state = Some("OFF") /\ e.brightness_state # None
                           THEN send_brightness(e, e.brightness_state[1], rf).out
                           ELSE <<>>)
                       \o <<Pub(e.state_topic, payload, TRUE)>>, "none")
         ELSE IF payload = "OFF"
         THEN Res(e, send_action(e, e.rf_code_off, rf)
                       \o <<Pub(e.state_topic, payload, TRUE)>>, "none")
         ELSE Res(e, <<>>, "none")
    ELSE Res(e, <<>>, "none")

\* mutant: the local state is left as it was (line 191 missing)
LightRaceFixNoState(e, rf) ==
    IF e.state # Some("ON")
    THEN Res(e, send_action(e, e.rf_code_on, rf) \o <<Pub(e.state_topic, "ON", TRUE)>>, "none")
    ELSE Res(e, <<>>, "none")

\* lines 190-193: the race fix
LightRaceFix(e, rf) ==
    IF e.state # Some("ON")
    THEN Res([e EXCEPT !.state = Some("ON")],
             send_action(e, e.rf_code_on, rf) \o <<Pub(e.state_topic, "ON", TRUE)>>, "none")
    ELSE Res(e, <<>>, "none")

\* lines 194-195: parse the level and set it
LightParseAndSet(e, payload, rf) ==
    IF IsInt(payload) THEN set_brightness(e, ParseInt(payload), rf)
                      ELSE Res(e, <<>>, "ValueError")

\* lines 189-195: brightness command
LightBrightnessCommand(e, topic, payload, rf) ==
    IF topic = e.brightness_command_topic
    THEN Then(LightRaceFix(e, rf), LightParseAndSet(LightRaceFix(e, rf).ent, payload, rf))
    ELSE Res(e, <<>>, "none")

\* x or 1, for x None or an integer
OrOne(x) == IF x = None \/ x[1] = 0 THEN 1 ELSE x[1]

\* lines 197-206: effect command
LightEffectCommand(e, topic, payload, rf) ==
    IF ~HasAttr(e, "effect_command_topic")
    THEN Res(e, <<>>, "AttributeError")
    ELSE IF topic = e.effect_command_topic
    THEN IF payload = "Off"
         THEN Then(set_brightness(e, OrOne(e.brightness_state), rf),
                   Res(e, <<Pub(e.effect_state_topic, "OFF", TRUE)>>, "none"))
         ELSE IF ~DictHas(e.effects, payload)
         THEN Res(e, <<>>, "KeyError")
         ELSE Res(e, send_action(e, DictGet(e.effects, payload), rf)
                       \o <<Pub(e.effect_state_topic, payload, TRUE)>>, "none")
    ELSE Res(e, <<>>, "none")

\* the five ifs of LightSwitch.handle_message in source order, each run on
\* the result r of the ones before it
LightStep2(r, topic, payload) == Then(r, LightObserveBrightness(r.ent, topic, payload))
LightStep3(r, topic, payload, rf) == Then(r, LightCommand(r.ent, topic, payload, rf))
LightStep4(r, topic, payload, rf) == Then(r, LightBrightnessCommand(r.ent, topic, payload, rf))
LightStep5(r, topic, payload, rf) == Then(r, LightEffectCommand(r.ent, topic, payload, rf))

\* LightSwitch.handle_message
LightHandleMessage(e, topic, payload, rf) ==
    LightStep5(
      LightStep4(
        LightStep3(
          LightStep2(LightObserveState(e, topic, payload), topic, payload),
          topic, payload, rf),
        topic, payload, rf),
      topic, payload, rf)

\* entity.handle_message, dispatched on the entity's class
handle_message(e, topic, payload, rf) ==
    IF e.type = "button" THEN ButtonHandleMessage(e, topic, payload, rf)
    ELSE IF e.type = "switch" THEN SwitchHandleMessage(e, topic, payload, rf)
    ELSE LightHandleMessage(e, topic, payload, rf)

(* ----------------------------- discovery ------------------------------- *)

\* the effects of a loop and the exception that left it
Done(out, err) == [out |-> out, err |-> err]
AndThen(r, s) == IF r.err # "none" THEN r ELSE Done(r.out \o s.out, s.err)

\* MqttEntity.build_discovery
MqttEntityBuildDiscovery(e) ==
    << <<"name", e.name>>,
       <<"icon", e.icon>>,
       <<"unique_id", e.unique_id>>,
       <<"device", JsonDumps(e.device)>> >>

\* Button.build_discovery, Switch.build_discovery, LightSwitch.build_discovery:
\* the descriptor, or the exception raised while building it
build_discovery(e) ==
    IF e.type = "button"
    THEN [err |-> "none",
          dict |-> DictUpdate(MqttEntityBuildDiscovery(e),
                     << <<"command_topic", e.command_topic>> >>)]
    ELSE IF e.type = "switch"
    THEN [err |-> "none",
          dict |-> DictUpdate(MqttEntityBuildDiscovery(e),
                     << <<"state_topic", e.state_topic>>,
                        <<"command_topic", e.command_topic>> >>)]
    ELSE IF ~HasAttr(e, "effects")
    THEN [err |-> "AttributeError", dict |-> <<>>]
    ELSE [err |-> "none",
          dict |-> DictUpdate(MqttEntityBuildDiscovery(e),
                     << <<"state_topic", e.state_topic>>,
                        <<"command_topic", e.command_topic>>,
                        <<"brightness_state_topic", e.brightness_state_topic>>,
                        <<"brightness_command_topic", e.brightness_command_topic>>,
                        <<"brightness_scale", Str(Len(e.brightness_codes))>>,
                        <<"effect_list", "[" \o Join(DictKeys(e.effects), ", ") \o "]">>,
                        <<"effect_state_topic", e.effect_state_topic>>,
                        <<"effect_command_topic", e.effect_command_topic>> >>)]

\* mutant: the discovery message is published retained
PublishDiscoveryRetained(e, d) ==
    IF d.err # "none" THEN Done(<<>>, d.err)
    ELSE Done(<<Pub(e.discovery_topic, JsonDumps(d.dict), TRUE)>>, "none")

\* client.publish(self.discovery_topic, json.dumps(d)) with no retain argument
PublishDiscovery(e, d) ==
    IF d.err # "none" THEN Done(<<>>, d.err)
    ELSE Done(<<Pub(e.discovery_topic, JsonDumps(d.dict), FALSE)>>, "none")

\* MqttEntity.initial_publish
initial_publish(e) == PublishDiscovery(e, build_discovery(e))

\* publish_entity_discovery_messages: the publishes made and the exception
\* that left the loop, if any
RECURSIVE publish_entity_discovery_messages(_)
publish_entity_discovery_messages(ents) ==
    IF ents = <<>> THEN Done(<<>>, "none")
    ELSE AndThen(initial_publish(Head(ents)), publish_entity_discovery_messages(Tail(ents)))

(* ----------------------------- subscribe ------------------------------- *)

Sub(topic) == [k |-> "sub", topic |-> topic]

\* MqttEntity.subscribe
MqttEntitySubscribe(e) == <<Sub(e.command_topic)>>

\* Button and Switch inherit MqttEntity.subscribe; LightSwitch.subscribe
\* raises AttributeError at its last line when the light has no effects
subscribe(e) ==
    IF e.type # "light" THEN Done(MqttEntitySubscribe(e), "none")
    ELSE IF HasAttr(e, "effect_command_topic")
    THEN Done(MqttEntitySubscribe(e)
                \o <<Sub(e.state_topic), Sub(e.brightness_state_topic),
                     Sub(e.brightness_command_topic), Sub(e.effect_command_topic)>>, "none")
    ELSE Done(MqttEntitySubscribe(e)
                \o <<Sub(e.state_topic), Sub(e.brightness_state_topic),
                     Sub(e.brightness_command_topic)>>, "AttributeError")

\* lines 338-339: for entity in entities: entity.subscribe(client)
RECURSIVE SubscribeAll(_)
SubscribeAll(ents) ==
    IF ents = <<>> THEN Done(<<>>, "none")
    ELSE AndThen(subscribe(Head(ents)), SubscribeAll(Tail(ents)))

(* ------------------------------ callbacks ------------------------------ *)

\* on_connect: the effects of the callback and the exception leaving it
on_connect(cfg, ents, reason_code) ==
    IF reason_code # 0 THEN Done(<<>>, "none")
    ELSE AndThen(IF cfg.birth_topic # None /\ cfg.birth_payload # None
                 THEN Done(<<Sub(cfg.birth_topic[1])>>, "none")
                 ELSE publish_entity_discovery_messages(ents),
                 SubscribeAll(ents))

\* the registry, the effects and the exception after part of on_message, and
\* the registry positions of the entities whose handle_message was called
Ran(ents, out, err, calls) == [ents |-> ents, out |-> out, err |-> err, calls |-> calls]

\* lines 317-318: every entity handles the message in registry order; an
\* exception leaves the loop.  Dispatch runs entity i, DispatchRest goes on
\* with r, the result of its handler
RECURSIVE Dispatch(_, _, _, _, _)
RECURSIVE DispatchRest(_, _, _, _, _, _)
Dispatch(ents, i, topic, payload, rf) ==
    IF i > Len(ents) THEN Ran(ents, <<>>, "none", <<>>)
    ELSE DispatchRest(ents, i, handle_message(ents[i], topic, payload, rf), topic, payload, rf)

AfterOut(o, d) == Ran(d.ents, o \o d.out, d.err, d.calls)

AfterCall(i, d) == Ran(d.ents, d.out, d.err, <<i>> \o d.calls)

DispatchRest(ents, i, r, topic, payload, rf) ==
    IF r.err # "none" THEN Ran([ents EXCEPT ![i] = r.ent], r.out, r.err, <<i>>)
    ELSE AfterCall(i, AfterOut(r.out, Dispatch([ents EXCEPT ![i] = r.ent], i + 1, topic, payload, rf)))

\* mutant: the payload of a message on the birth topic is not compared
BirthCheckAnyPayload(cfg, ents, topic, payload) ==
    IF cfg.birth_topic # None /\ topic = cfg.birth_topic[1]
    THEN publish_entity_discovery_messages(ents)
    ELSE Done(<<>>, "none")

\* lines 312-315: the birth message
BirthCheck(cfg, ents, topic, payload) ==
    IF cfg.birth_topic # None /\ topic = cfg.birth_topic[1] /\ Some(payload) = cfg.birth_payload
    THEN publish_entity_discovery_messages(ents)
    ELSE Done(<<>>, "none")

\* the rest of on_message after the birth check with result b
OnMessageRest(b, ents, topic, payload, rf) ==
    IF b.err # "none" THEN Ran(ents, b.out, b.err, <<>>)
    ELSE AfterOut(b.out, Dispatch(ents, 1, topic, payload, rf))

\* on_message, payload being the decoded text of msg.payload
on_message(cfg, ents, topic, payload, rf) ==
    OnMessageRest(BirthCheck(cfg, ents, topic, payload), ents, topic, payload, rf)

(* ---------------------------- state machine ---------------------------- *)

VARIABLES
    config,       \* config["ha"]: birth_topic and birth_payload (None or Some)
    rf_imported,  \* whether "from rpi_rf import RFDevice" succeeded
    entities,     \* the registry, with each LightSwitch's state and brightness_state
    connected,    \* the client is connected to the broker
    subs,         \* the topics the client is subscribed to
    err,          \* the exception that left a callback and so loop_forever, which
                  \* line 386 does not catch: "none" while the process runs
    ev,           \* the callback that ran last, with its arguments
    out,          \* the transmissions, publishes and subscribes it made, in order
    pre,          \* the registry as it was when that callback started
    repeat,       \* that callback got the same arguments as the one before it
    calls,        \* the registry positions of the entities whose handle_message
                  \* that callback called, in the order of the calls
    inflight,     \* the bridge's own publishes to topics it is subscribed to that
                  \* the broker has not delivered back yet, oldest first
    last_pub,     \* the payload of the bridge's last publish to the stateTopic of
                  \* the LightSwitch: None or Some(payload)
    last_cmd,     \* the last power or brightness command the LightSwitch handled:
                  \* "ON", "OFF" or "brightness" ("none" before the first)
    sc_pc,        \* the statement of send_code that runs next ("idle" outside it)
    sc_todo,      \* the codes the running handler still passes to send_code
    rf_device,    \* the local rf_device of send_code: None or Some(handle)
    held,         \* the handles RFDevice() returned that cleanup() has not released
    sc_exc        \* the exception send_code is raising and the call that raised it

main_vars == <<config, rf_imported, entities, connected, subs, err, ev, out, pre, repeat, calls>>
echo_vars == <<inflight, last_pub, last_cmd>>
sc_vars == <<sc_pc, sc_todo, rf_device, held, sc_exc>>
vars == <<main_vars, echo_vars, sc_vars>>

\* The payloads the broker delivers on a topic: every literal the handlers
\* compare a payload of that topic with, a word none of them knows, and on
\* the topics parsed with int() the levels 0..N+1 and a zero-padded level.
Unknown == "Disco"
CommandPayloads == {"ON", "OFF", "PRESS", Unknown}
StatePayloads == {"ON", "OFF", Unknown}
LevelPayloads == {Str(i) : i \in 0..(NumLevels + 1)} \cup {"0" \o Str(NumLevels), Unknown}
EffectPayloads == {"Off", "OFF", "Rainbow", "Fade", Unknown}
BirthPayloads == {BirthPayload, "offline"}

MessagesTo(e) ==
    {<<e.command_topic, p>> : p \in CommandPayloads}
    \cup (IF e.type = "light"
          THEN {<<e.state_topic, p>> : p \in StatePayloads}
               \cup {<<e.brightness_state_topic, p>> : p \in LevelPayloads}
               \cup {<<e.brightness_command_topic, p>> : p \in LevelPayloads}
               \cup (IF HasAttr(e, "effect_command_topic")
                     THEN {<<e.effect_command_topic, p>> : p \in EffectPayloads}
                     ELSE {})
          ELSE {})

Messages ==
    {<<BirthTopic, p>> : p \in BirthPayloads}
    \cup UNION {MessagesTo(entities[i]) : i \in 1..Len(entities)}

Configs ==
    { [birth_topic |-> Some(BirthTopic), birth_payload |-> Some(BirthPayload)],
      [birth_topic |-> None, birth_payload |-> None] }

\* nothing published yet, no command handled yet
EchoIdle ==
    /\ inflight = <<>>
    /\ last_pub = None
    /\ last_cmd = "none"

\* send_code is not running
SendCodeIdle ==
    /\ sc_pc = "idle"
    /\ sc_todo = <<>>
    /\ rf_device = None
    /\ held = {}
    /\ sc_exc = [type |-> "none", at |-> ""]

\* the module level of the script after create_entities, before loop_forever
Init ==
    /\ EchoIdle
    /\ SendCodeIdle
    /\ calls = <<>>
    /\ config \in Configs
    /\ rf_imported \in BOOLEAN
    /\ entities \in {create_entities(TRUE), create_entities(FALSE)}
    /\ connected = FALSE
    /\ subs = {}
    /\ err = "none"
    /\ ev = [kind |-> "start", topic |-> "", payload |-> "", reason_code |-> 0]
    /\ out = <<>>
    /\ pre = entities
    /\ repeat = FALSE

Topics(o) == {o[i].topic : i \in {j \in 1..Len(o) : o[j].k = "sub"}}

\* the broker answers a connection attempt
OnConnect(reason_code) ==
    /\ err = "none"
    /\ ~connected
    /\ \E r \in {on_connect(config, entities, reason_code)} :
           /\ out' = r.out
           /\ err' = r.err
           /\ subs' = subs \cup Topics(r.out)
    /\ connected' = (reason_code = 0)
    /\ ev' = [kind |-> "connect", topic |-> "", payload |-> "", reason_code |-> reason_code]
    /\ pre' = entities
    /\ repeat' = (ev' = ev)
    /\ calls' = <<>>
    /\ UNCHANGED <<config, rf_imported, entities, echo_vars, sc_vars>>

\* the connection is lost; the broker drops the session's subscriptions
OnDisconnect ==
    /\ err = "none"
    /\ connected
    /\ connected' = FALSE
    /\ subs' = {}
    /\ out' = <<>>
    /\ ev' = [kind |-> "disconnect", topic |-> "", payload |-> "", reason_code |-> 0]
    /\ pre' = entities
    /\ repeat' = FALSE
    /\ calls' = <<>>
    /\ UNCHANGED <<config, rf_imported, entities, err, echo_vars, sc_vars>>

\* how a call of send_code ends: RFDevice missing, or what tx_code returns
TxResult(imported, tx_ok) ==
    IF ~imported THEN "unavailable" ELSE IF tx_ok THEN "ok" ELSE "fail"

\* the broker delivers a message on a subscribed topic; tx_ok is what
\* tx_code returns for the transmissions made while handling it
OnMessage(topic, payload, tx_ok) ==
    /\ err = "none"
    /\ connected
    /\ topic \in subs
    /\ rf_imported \/ tx_ok
    /\ \E r \in {on_message(config, entities, topic, payload, TxResult(rf_imported, tx_ok))} :
           /\ entities' = r.ents
           /\ out' = r.out
           /\ err' = r.err
           /\ calls' = r.calls
    /\ ev' = [kind |-> "message", topic |-> topic, payload |-> payload, reason_code |-> 0]
    /\ pre' = entities
    /\ repeat' = (ev' = ev)
    /\ UNCHANGED <<config, rf_imported, connected, subs, echo_vars, sc_vars>>

Next ==
    \/ \E reason_code \in {0, 5} : OnConnect(reason_code)
    \/ OnDisconnect
    \/ \E m \in Messages, tx_ok \in BOOLEAN : OnMessage(m[1], m[2], tx_ok)

Spec == Init /\ [][Next]_vars

(* ------------------- handle_message called on its own ------------------- *)

\* a LightSwitch in each runtime state lines 135-136 and 173-176 can give it
\* from the bridge's own publishes: nothing observed yet, "ON"/"OFF", a level
LightStates(e) ==
    {[e EXCEPT !.state = s, !.brightness_state = b] :
        s \in {None, Some("ON"), Some("OFF")},
        b \in {None} \cup {Some(n) : n \in 1..Len(e.brightness_codes)}}

\* every entity class, the LightSwitch with and without effects
Variants == {TheButton, TheSwitch} \cup LightStates(TheLight) \cup LightStates(PlainLight)

\* the messages of every topic of every entity, and the birth messages
AllMessages ==
    {<<BirthTopic, p>> : p \in BirthPayloads} \cup UNION {MessagesTo(e) : e \in Variants}

\* a registry of one entity, nothing handled yet
HandlerInit ==
    /\ EchoIdle
    /\ SendCodeIdle
    /\ calls = <<>>
    /\ config = [birth_topic |-> None, birth_payload |-> None]
    /\ rf_imported \in BOOLEAN
    /\ entities \in {<<e>> : e \in Variants}
    /\ connected = TRUE
    /\ subs = {}
    /\ err = "none"
    /\ ev = [kind |-> "start", topic |-> "", payload |-> "", reason_code |-> 0]
    /\ out = <<>>
    /\ pre = entities
    /\ repeat = FALSE

\* one call entity.handle_message(client, topic, payload) as in line 318; err
\* is the exception that call raised
HandleMessage(topic, payload, tx_ok) ==
    /\ rf_imported \/ tx_ok
    /\ \E r \in {handle_message(entities[1], topic, payload, TxResult(rf_imported, tx_ok))} :
           /\ entities' = <<r.ent>>
           /\ out' = r.out
           /\ err' = r.err
    /\ calls' = <<1>>
    /\ ev' = [kind |-> "message", topic |-> topic, payload |-> payload, reason_code |-> 0]
    /\ pre' = entities
    /\ repeat' = (ev' = ev)
    /\ UNCHANGED <<config, rf_imported, connected, subs, echo_vars, sc_vars>>

HandlerNext == \E m \in AllMessages, tx_ok \in BOOLEAN : HandleMessage(m[1], m[2], tx_ok)

HandlerSpec == HandlerInit /\ [][HandlerNext]_vars

(* ------------------------ send_code step by step ------------------------ *)

\* the handles the driver can hand out at the same time
MaxHandles == 2

NoExc == [type |-> "none", at |-> ""]
Exc(type, at) == [type |-> type, at |-> at]

\* the codes of the transmissions of o, in order
TxCodes(o) ==
    LET IsTx(x) == x.k = "tx"
        t == SelectSeq(o, IsTx)
    IN  [j \in 1..Len(t) |-> t[j].code]

\* the calls of send_code a handler makes for one message: the codes it
\* passes, in order, for every entity, runtime state and message
TxPlans ==
    {TxCodes(handle_message(e, m[1], m[2], "ok").out) : e \in Variants, m \in AllMessages} \ {<<>>}

\* a handler starts that will call send_code with the codes of plan
SCHandle(plan) ==
    /\ err = "none" /\ sc_pc = "idle" /\ sc_todo = <<>>
    /\ sc_todo' = plan
    /\ UNCHANGED <<main_vars, echo_vars, sc_pc, rf_device, held, sc_exc>>

\* line 241: send_code is entered, rf_device = None
SCEnter ==
    /\ err = "none" /\ sc_pc = "idle" /\ sc_todo # <<>>
    /\ rf_device' = None
    /\ sc_exc' = NoExc
    /\ sc_pc' = "RFDevice"
    /\ UNCHANGED <<main_vars, echo_vars, sc_todo, held>>

\* line 247: rf_device = RFDevice(rf_gpio_pin); the name is undefined when
\* the import of line 26 failed, and the constructor can raise
SCRFDevice(raises) ==
    /\ sc_pc = "RFDevice"
    /\ IF ~rf_imported
       THEN /\ sc_exc' = Exc("NameError", "RFDevice")
            /\ sc_pc' = "except"
            /\ UNCHANGED <<rf_device, held>>
       ELSE IF raises
       THEN /\ sc_exc' = Exc("RuntimeError", "RFDevice")
            /\ sc_pc' = "except"
            /\ UNCHANGED <<rf_device, held>>
       ELSE /\ Cardinality(held) < MaxHandles
            /\ \E h \in {n \in 1..MaxHandles : n \notin held /\ \A k \in 1..(n - 1) : k \in held} :
                   /\ rf_device' = Some(h)
                   /\ held' = held \cup {h}
            /\ sc_pc' = "enable_tx"
            /\ UNCHANGED sc_exc
    /\ UNCHANGED <<main_vars, echo_vars, sc_todo>>

\* line 248: rf_device.enable_tx()
SCEnableTx(raises) ==
    /\ sc_pc = "enable_tx"
    /\ IF raises
       THEN sc_exc' = Exc("RuntimeError", "enable_tx") /\ sc_pc' = "except"
       ELSE sc_pc' = "tx_code" /\ UNCHANGED sc_exc
    /\ UNCHANGED <<main_vars, echo_vars, sc_todo, rf_device, held>>

\* lines 254-256: success = rf_device.tx_code(...); a False is logged
SCTxCode(result) ==
    /\ sc_pc = "tx_code"
    /\ IF result = "raise"
       THEN sc_exc' = Exc("RuntimeError", "tx_code") /\ sc_pc' = "except"
       ELSE sc_pc' = "finally" /\ UNCHANGED sc_exc
    /\ UNCHANGED <<main_vars, echo_vars, sc_todo, rf_device, held>>

\* lines 257-258: except NameError catches and logs; anything else stays raised
SCExcept ==
    /\ sc_pc = "except"
    /\ sc_exc' = IF sc_exc.type = "NameError" THEN NoExc ELSE sc_exc
    /\ sc_pc' = "finally"
    /\ UNCHANGED <<main_vars, echo_vars, sc_todo, rf_device, held>>

\* mutant: cleanup() is the last statement of the try block, not a finally
SCFinallyOnlyOnSuccess ==
    /\ sc_pc = "finally"
    /\ held' = IF rf_device # None /\ sc_exc = NoExc THEN held \ {rf_device[1]} ELSE held
    /\ rf_device' = None
    /\ IF sc_exc = NoExc
       THEN /\ sc_pc' = "idle"
            /\ sc_todo' = Tail(sc_todo)
            /\ UNCHANGED err
       ELSE /\ sc_pc' = "raised"
            /\ err' = sc_exc.type
            /\ UNCHANGED sc_todo
    /\ UNCHANGED <<config, rf_imported, entities, connected, subs, ev, out, pre, repeat, calls,
                   echo_vars, sc_exc>>

\* lines 259-261: finally: if rf_device is not None: rf_device.cleanup();
\* then send_code returns to the handler, or the exception goes on through
\* the handler, on_message and loop_forever
SCFinally ==
    /\ sc_pc = "finally"
    /\ held' = IF rf_device # None THEN held \ {rf_device[1]} ELSE held
    /\ rf_device' = None
    /\ IF sc_exc = NoExc
       THEN /\ sc_pc' = "idle"
            /\ sc_todo' = Tail(sc_todo)
            /\ UNCHANGED err
       ELSE /\ sc_pc' = "raised"
            /\ err' = sc_exc.type
            /\ UNCHANGED sc_todo
    /\ UNCHANGED <<config, rf_imported, entities, connected, subs, ev, out, pre, repeat, calls,
                   echo_vars, sc_exc>>

SendCodeNext ==
    \/ \E plan \in TxPlans : SCHandle(plan)
    \/ SCEnter
    \/ \E raises \in BOOLEAN : SCRFDevice(raises)
    \/ \E raises \in BOOLEAN : SCEnableTx(raises)
    \/ \E result \in {"True", "False", "raise"} : SCTxCode(result)
    \/ SCExcept
    \/ SCFinally

SendCodeSpec == Init /\ [][SendCodeNext]_vars

(* ------------- the bridge's own state publishes come back -------------- *)

\* the publishes the broker may hold undelivered at the same time
MaxInFlight == 2

\* the position of the LightSwitch in the registry
LightIx(ents) == CHOOSE i \in 1..Len(ents) : ents[i].type = "light"

\* the publishes of o the broker delivers back to the bridge: those to a
\* topic the bridge subscribed to (lines 165-170), as <<topic, payload>>
Echoes(o, topics) ==
    LET IsEcho(x) == x.k = "pub" /\ x.topic \in topics
        t == SelectSeq(o, IsEcho)
    IN  [j \in 1..Len(t) |-> <<t[j].topic, t[j].payload>>]

\* the payload of the last publish of o to topic, or last if there is none
LastPublished(o, topic, last) ==
    LET IsP(x) == x.k = "pub" /\ x.topic = topic
        t == SelectSeq(o, IsP)
    IN  IF t = <<>> THEN last ELSE Some(t[Len(t)].payload)

\* the command a message is for the LightSwitch e, or last if it is none
LastCommand(e, topic, payload, last) ==
    IF topic = e.command_topic /\ payload \in {"ON", "OFF"} THEN payload
    ELSE IF topic = e.brightness_command_topic THEN "brightness"
    ELSE last

\* the topics only the bridge publishes to
EchoTopics(ents) == {ents[LightIx(ents)].state_topic, ents[LightIx(ents)].brightness_state_topic}

\* the bridge after its first on_connect, with a LightSwitch with effects
EchoInit ==
    /\ EchoIdle
    /\ SendCodeIdle
    /\ calls = <<>>
    /\ config = [birth_topic |-> Some(BirthTopic), birth_payload |-> Some(BirthPayload)]
    /\ rf_imported \in BOOLEAN
    /\ entities = create_entities(TRUE)
    /\ connected = TRUE
    /\ err = "none"
    /\ ev = [kind |-> "connect", topic |-> "", payload |-> "", reason_code |-> 0]
    /\ out = on_connect(config, entities, 0).out
    /\ subs = Topics(out)
    /\ pre = entities
    /\ repeat = FALSE

\* on_message for a message with result r; the broker queues the publishes
\* it will deliver back, after those of queue
EchoHandled(topic, payload, r, queue) ==
    /\ Len(queue) + Len(Echoes(r.out, subs)) <= MaxInFlight
    /\ entities' = r.ents
    /\ out' = r.out
    /\ err' = r.err
    /\ calls' = r.calls
    /\ inflight' = queue \o Echoes(r.out, subs)
    /\ last_pub' = LastPublished(r.out, entities[LightIx(entities)].state_topic, last_pub)
    /\ ev' = [kind |-> "message", topic |-> topic, payload |-> payload, reason_code |-> 0]
    /\ pre' = entities
    /\ repeat' = (ev' = ev)
    /\ UNCHANGED <<config, rf_imported, connected, subs, sc_vars>>

\* the broker delivers a command another client published for the LightSwitch
EchoCommand(topic, payload) ==
    /\ err = "none"
    /\ topic \in subs \ EchoTopics(entities)
    /\ EchoHandled(topic, payload,
                   on_message(config, entities, topic, payload, TxResult(rf_imported, TRUE)),
                   inflight)
    /\ last_cmd' = LastCommand(entities[LightIx(entities)], topic, payload, last_cmd)

\* the broker delivers the oldest of the bridge's own publishes back
EchoDeliver ==
    /\ err = "none"
    /\ inflight # <<>>
    /\ EchoHandled(Head(inflight)[1], Head(inflight)[2],
                   on_message(config, entities, Head(inflight)[1], Head(inflight)[2],
                              TxResult(rf_imported, TRUE)),
                   Tail(inflight))
    /\ UNCHANGED last_cmd

EchoNext ==
    \/ \E m \in MessagesTo(entities[LightIx(entities)]) : EchoCommand(m[1], m[2])
    \/ EchoDeliver

EchoSpec == EchoInit /\ [][EchoNext]_vars

(* ------------------------------ claims --------------------------------- *)

\* the callback that ran last was on_message
Handled == ev.kind = "message"

\* the transmissions, publishes and subscribes of o, a transmission reduced
\* to the code sent
Shape(o) ==
    [j \in 1..Len(o) |-> IF o[j].k = "tx" THEN [k |-> "tx", code |-> o[j].code] ELSE o[j]]

T(code) == [k |-> "tx", code |-> code]

Entity(i) == pre[i]
Indices == 1..Len(pre)
Lights == {i \in Indices : pre[i].type = "light"}

\* the level a brightness payload asks for is one of the configured levels
ValidLevel(e, payload) ==
    IsInt(payload) /\ ParseInt(payload) >= 1 /\ ParseInt(payload) <= Len(e.brightness_codes)

\* C1: a Switch handling "ON" ("OFF") on its commandTopic makes exactly one
\* transmission of its on-code (off-code) followed by exactly one retained
\* publish of that payload to its stateTopic; any other payload on its
\* commandTopic causes no transmission and no publish.
C1_SwitchOnOff ==
    \A i \in Indices :
        (Entity(i).type = "switch" /\ Handled /\ ev.topic = Entity(i).command_topic) =>
            /\ ev.payload = "ON" =>
                  Shape(out) = <<T(Entity(i).rf_code_on),
                                 Pub(Entity(i).state_topic, "ON", TRUE)>>
            /\ ev.payload = "OFF" =>
                  Shape(out) = <<T(Entity(i).rf_code_off),
                                 Pub(Entity(i).state_topic, "OFF", TRUE)>>
            /\ ev.payload \notin {"ON", "OFF"} => out = <<>>

C1_Witness ==
    \E i \in Indices :
        /\ Entity(i).type = "switch" /\ Handled /\ ev.topic = Entity(i).command_topic
        /\ ev.payload = "OFF" /\ Len(out) = 2 /\ out[1].k = "tx"

\* C2: a Button handling a message on its commandTopic transmits its single
\* code exactly once if the payload is "PRESS" and nothing otherwise, and
\* never publishes.
C2_ButtonPress ==
    \A i \in Indices :
        (Entity(i).type = "button" /\ Handled /\ ev.topic = Entity(i).command_topic) =>
            /\ ev.payload = "PRESS" => Shape(out) = <<T(Entity(i).rf_code)>>
            /\ ev.payload # "PRESS" => out = <<>>
            /\ \A j \in 1..Len(out) : out[j].k # "pub"

C2_Witness ==
    \E i \in Indices :
        /\ Entity(i).type = "button" /\ Handled /\ ev.topic = Entity(i).command_topic
        /\ ev.payload = "PRESS" /\ Len(out) = 1 /\ out[1].k = "tx"

\* C3: a LightSwitch whose state is not "ON" handling a valid level b on its
\* brightnessCommandTopic transmits the on-code, publishes "ON" retained to
\* stateTopic, transmits the code of level b, publishes b retained to
\* brightnessStateTopic and "OFF" retained to effectStateTopic, in this order,
\* and its state is "ON" afterwards; when the state is "ON" already only the
\* last three happen.
C3_RaceFixOrder ==
    \A i \in Lights :
        (Handled /\ ev.topic = Entity(i).brightness_command_topic
                 /\ ValidLevel(Entity(i), ev.payload)) =>
            LET e == Entity(i)
                b == ParseInt(ev.payload)
                set == <<T(e.brightness_codes[b]),
                         Pub(e.brightness_state_topic, Str(b), TRUE),
                         Pub(e.effect_state_topic, "OFF", TRUE)>>
            IN  /\ entities[i].state = Some("ON")
                /\ e.state # Some("ON") =>
                      Shape(out) = <<T(e.rf_code_on), Pub(e.state_topic, "ON", TRUE)>> \o set
                /\ e.state = Some("ON") => Shape(out) = set

C3_Witness ==
    \E i \in Lights :
        /\ Handled /\ ev.topic = Entity(i).brightness_command_topic
        /\ ValidLevel(Entity(i), ev.payload)
        /\ Entity(i).state = Some("OFF")
        /\ Len(out) = 5 /\ entities[i].state = Some("ON")

\* C4: a brightnessCommandTopic message whose integer level is outside 1..N
\* causes no transmission and no publish at all, whatever the light's state.
C4_OutOfRangeRejected ==
    \A i \in Lights :
        (Handled /\ ev.topic = Entity(i).brightness_command_topic
                 /\ IsInt(ev.payload) /\ ~ValidLevel(Entity(i), ev.payload)) =>
            out = <<>>

\* the codes of the brightness table of e
BrightnessCodeSet(e) == {e.brightness_codes[j] : j \in 1..Len(e.brightness_codes)}

\* the transmissions of o that send a code of the brightness table of e
BrightnessTx(e, o) ==
    LET IsB(x) == x.k = "tx" /\ x.code \in BrightnessCodeSet(e)
    IN  SelectSeq(Shape(o), IsB)

\* the publishes of o to the given topic
PubsTo(topic, o) ==
    LET IsP(x) == x.k = "pub" /\ x.topic = topic
    IN  SelectSeq(o, IsP)

\* C5: a brightness command with a level b in 1..N transmits the code at
\* position b-1 (0-based) of the brightness code list and no other brightness
\* code, and publishes b to brightnessStateTopic.
C5_BrightnessMapping ==
    \A i \in Lights :
        (Handled /\ ev.topic = Entity(i).brightness_command_topic
                 /\ ValidLevel(Entity(i), ev.payload)) =>
            LET e == Entity(i)
                b == ParseInt(ev.payload)
            IN  /\ BrightnessTx(e, out) = <<T(PyIndex(e.brightness_codes, b - 1))>>
                /\ PubsTo(e.brightness_state_topic, out)
                      = <<Pub(e.brightness_state_topic, Str(b), TRUE)>>

C5_Witness ==
    \E i \in Lights :
        /\ Handled /\ ev.topic = Entity(i).brightness_command_topic
        /\ ValidLevel(Entity(i), ev.payload)
        /\ ParseInt(ev.payload) = Len(Entity(i).brightness_codes)
        /\ Len(BrightnessTx(Entity(i), out)) = 1

\* the codes of the effect table of e, the entry stored for "Off" included
EffectCodeSet(e) == {e.effects[j][2] : j \in 1..Len(e.effects)}

\* C6: a LightSwitch handling "Off" on its effectCommandTopic transmits the
\* brightness code of its last known brightness level (level 1 if unknown),
\* publishes that level retained to brightnessStateTopic and "OFF" retained
\* to effectStateTopic, and transmits no code of the effect table.
C6_EffectOff ==
    \A i \in Lights :
        (Handled /\ HasAttr(Entity(i), "effect_command_topic")
                 /\ ev.topic = Entity(i).effect_command_topic /\ ev.payload = "Off") =>
            LET e == Entity(i)
                level == IF e.brightness_state = None THEN 1 ELSE e.brightness_state[1]
            IN  /\ level \in 1..Len(e.brightness_codes)
                /\ BrightnessTx(e, out) = <<T(e.brightness_codes[level])>>
                /\ Pub(e.brightness_state_topic, Str(level), TRUE)
                      \in {out[j] : j \in 1..Len(out)}
                /\ Pub(e.effect_state_topic, "OFF", TRUE) \in {out[j] : j \in 1..Len(out)}
                /\ \A j \in 1..Len(out) :
                      out[j].k = "tx" => out[j].code \notin EffectCodeSet(e)

\* C7: an effectCommandTopic payload that is neither a configured effect name
\* nor "Off" is silently ignored: no transmission, no publish, no change of
\* the light's state and no exception; a configured effect name transmits its
\* code and publishes the name retained to effectStateTopic.
C7_UnknownEffectIgnored ==
    \A i \in Lights :
        (Handled /\ HasAttr(Entity(i), "effect_command_topic")
                 /\ ev.topic = Entity(i).effect_command_topic /\ ev.payload # "Off") =>
            LET e == Entity(i)
            IN  IF DictHas(e.effects, ev.payload)
                THEN Shape(out) = <<T(DictGet(e.effects, ev.payload)),
                                    Pub(e.effect_state_topic, ev.payload, TRUE)>>
                ELSE out = <<>> /\ entities = pre /\ err = "none"

\* the discovery publish of every entity of ents, in registry order
DiscoveryPubs(ents) ==
    [j \in 1..Len(ents) |->
        Pub(ents[j].discovery_topic, JsonDumps(build_discovery(ents[j]).dict), FALSE)]

DiscoveryTopics == {pre[i].discovery_topic : i \in Indices}

\* C8: with a birth topic and payload configured, every inbound message that
\* matches both makes the bridge publish the discovery payload of every
\* registered entity to its discoveryTopic, however often that happened
\* before; a message on the birth topic with another payload causes no
\* discovery publish.
C8_BirthRepublish ==
    (Handled /\ config.birth_topic # None /\ config.birth_payload # None
             /\ ev.topic = config.birth_topic[1]) =>
        IF Some(ev.payload) = config.birth_payload
        THEN out = DiscoveryPubs(pre) /\ err = "none"
        ELSE \A j \in 1..Len(out) : out[j].k = "pub" => out[j].topic \notin DiscoveryTopics

C8_Witness ==
    /\ Handled /\ repeat
    /\ config.birth_topic # None /\ ev.topic = config.birth_topic[1]
    /\ Some(ev.payload) = config.birth_payload
    /\ Len(out) = Len(pre) /\ Len(pre) > 1
    /\ \A j \in 1..Len(out) : out[j].topic = pre[j].discovery_topic

\* C9: when a LightSwitch whose state is "ON" handles the same valid
\* brightness command twice in a row, the second message causes the same
\* effects as the first: one transmission of the level's code, the level
\* published retained to brightnessStateTopic and "OFF" published retained to
\* effectStateTopic.
C9_NoDeduplication ==
    [][ \A i \in 1..Len(entities) :
          ( /\ entities[i].type = "light"
            /\ ev'.kind = "message" /\ repeat'
            /\ ev'.topic = entities[i].brightness_command_topic
            /\ ValidLevel(entities[i], ev'.payload)
            /\ pre[i].state = Some("ON") ) =>
              /\ Shape(out') = Shape(out)
              /\ Shape(out') =
                    <<T(PyIndex(entities[i].brightness_codes, ParseInt(ev'.payload) - 1)),
                      Pub(entities[i].brightness_state_topic, Str(ParseInt(ev'.payload)), TRUE),
                      Pub(entities[i].effect_state_topic, "OFF", TRUE)>>
      ]_vars

C9_Witness ==
    \E i \in Lights :
        /\ Handled /\ repeat
        /\ ev.topic = Entity(i).brightness_command_topic
        /\ ValidLevel(Entity(i), ev.payload)
        /\ Entity(i).state = Some("ON")
        /\ Len(out) = 3

\* the state and attribute topics of the registered entities
StateTopics ==
    {pre[i].state_topic : i \in Indices}
    \cup {pre[i].brightness_state_topic : i \in Lights}
    \cup {pre[i].effect_state_topic : i \in {l \in Lights : HasAttr(pre[l], "effect_state_topic")}}

\* C10: every publish the bridge makes to a stateTopic, brightnessStateTopic
\* or effectStateTopic is retained and every publish to a discoveryTopic is
\* not retained, in on_connect and in on_message alike.
C10_RetainFlags ==
    \A j \in 1..Len(out) :
        out[j].k = "pub" =>
            /\ out[j].topic \in StateTopics \cup DiscoveryTopics
            /\ out[j].topic \in StateTopics => out[j].retain
            /\ out[j].topic \in DiscoveryTopics => ~out[j].retain

C10_Witness ==
    /\ Handled
    /\ Len(PubsTo(pre[Len(pre)].state_topic, out)) = 1
    /\ \E j \in 1..Len(out) :
          /\ out[j].k = "pub" /\ out[j].retain
          /\ HasAttr(pre[Len(pre)], "effect_state_topic")
          /\ out[j].topic = pre[Len(pre)].effect_state_topic

\* what on_message does with the last message when every transmission succeeds
OkRun == on_message(config, pre, ev.topic, ev.payload, "ok")

\* the last callback left the registry, the effects and the exception of r
SameAs(r) == Shape(out) = Shape(r.out) /\ entities = r.ents /\ err = r.err

ButtonCommandTopics == {pre[i].command_topic : i \in {b \in Indices : pre[b].type = "button"}}

\* C11: when the transmitter reports failure or is unavailable while a
\* command is handled, no transmission is made a second time and the
\* publishes are the ones of a successful transmission, in the same order;
\* a Switch or LightSwitch command that transmits ends with its state publish.
C11_OptimisticPublish ==
    (Handled /\ \E j \in 1..Len(out) : out[j].k = "tx" /\ out[j].res \in {"fail", "unavailable"}) =>
        /\ SameAs(OkRun)
        /\ ev.topic \notin ButtonCommandTopics => out[Len(out)].k = "pub" /\ out[Len(out)].retain

C11_Witness ==
    /\ Handled /\ Len(out) = 5
    /\ out[1].k = "tx" /\ out[1].res = "fail"
    /\ out[3].k = "tx" /\ out[3].res = "fail"
    /\ out[5].k = "pub"

\* C12: a LightSwitch handling "ON" on its commandTopic transmits the on-code
\* first, then, if its state is "OFF" and its brightness level is known, the
\* code of that level and otherwise no brightness code, and then publishes
\* "ON" retained to stateTopic as the only publish; handling "OFF" it
\* transmits only the off-code and publishes "OFF" retained to stateTopic.
C12_LightOnOff ==
    \A i \in Lights :
        (Handled /\ ev.topic = Entity(i).command_topic) =>
            LET e == Entity(i)
            IN  /\ (ev.payload = "ON" /\ e.state = Some("OFF") /\ e.brightness_state # None) =>
                      /\ e.brightness_state[1] \in 1..Len(e.brightness_codes)
                      /\ Shape(out) = <<T(e.rf_code_on),
                                         T(e.brightness_codes[e.brightness_state[1]]),
                                         Pub(e.state_topic, "ON", TRUE)>>
                /\ (ev.payload = "ON" /\ ~(e.state = Some("OFF") /\ e.brightness_state # None)) =>
                      Shape(out) = <<T(e.rf_code_on), Pub(e.state_topic, "ON", TRUE)>>
                /\ ev.payload = "OFF" =>
                      Shape(out) = <<T(e.rf_code_off), Pub(e.state_topic, "OFF", TRUE)>>

\* C13: whatever the topic and the payload of an inbound message,
\* handle_message is called exactly once on every registered entity, in
\* registry order, and no exception leaves on_message, so that the loop goes
\* on to the next message.
C13_DispatchComplete ==
    Handled => calls = [i \in 1..Len(pre) |-> i] /\ err = "none"

\* the topics handle_message of e compares the topic of a message with
OwnTopics(e) == {m[1] : m \in MessagesTo(e)}

\* C14: an entity of any class and configuration that handles a message
\* whose topic is none of its own topics transmits nothing, publishes
\* nothing, keeps its runtime state and raises nothing.
C14_ForeignTopicIgnored ==
    (Handled /\ ev.topic \notin OwnTopics(pre[1])) =>
        out = <<>> /\ entities = pre /\ err = "none"

\* C15: the state of a LightSwitch is unknown, "ON" or "OFF" and its
\* brightness level is unknown or one of the levels 1..N, after any sequence
\* of inbound messages.
C15_StateDomain ==
    \A i \in {l \in 1..Len(entities) : entities[l].type = "light"} :
        /\ entities[i].state \in {None, Some("ON"), Some("OFF")}
        /\ entities[i].brightness_state
               \in {None} \cup {Some(n) : n \in 1..Len(entities[i].brightness_codes)}

\* the names of the effect table of e other than the built-in "Off"
NamedEffects(e) == {e.effects[j][1] : j \in 1..Len(e.effects)} \ {"Off"}

\* a named-effect command leaves state and brightness level of the
\* LightSwitch as they were and publishes neither to brightnessStateTopic
\* nor to stateTopic
EffectKeepsState(i) ==
    (ev.topic = Entity(i).effect_command_topic /\ ev.payload \in NamedEffects(Entity(i))) =>
        /\ entities[i].state = Entity(i).state
        /\ entities[i].brightness_state = Entity(i).brightness_state
        /\ PubsTo(Entity(i).brightness_state_topic, out) = <<>>
        /\ PubsTo(Entity(i).state_topic, out) = <<>>

\* C16 as stated: a LightSwitch that transmits a code of its brightness
\* table while handling a message, an "ON" command that re-applies the
\* brightness included, publishes "OFF" retained to effectStateTopic while
\* handling that message; a named-effect command keeps state and brightness
\* level and publishes nothing to brightnessStateTopic or stateTopic.
C16_BrightnessOverridesEffect ==
    \A i \in Lights :
        Handled =>
            /\ BrightnessTx(Entity(i), out) # <<>> =>
                  \E j \in 1..Len(out) : out[j] = Pub(Entity(i).effect_state_topic, "OFF", TRUE)
            /\ EffectKeepsState(i)

\* C18: when on_connect or a birth message publishes discovery, a discovery
\* publish is made for every registered entity whose descriptor can be
\* built, also after an entity whose descriptor cannot be built.
C18_DiscoveryComplete ==
    (/\ ev.kind \in {"connect", "message"}
     /\ \E j \in 1..Len(out) : out[j].k = "pub" /\ out[j].topic \in DiscoveryTopics) =>
        \A i \in Indices :
            build_discovery(pre[i]).err = "none" =>
                PubsTo(pre[i].discovery_topic, out) # <<>>

\* C17: at most one handle is held at any time, the handle held is the one
\* of the call of send_code that is running, and no handle is held while no
\* call of send_code is running: between two transmissions, between two
\* messages, and after an exception of the driver has left send_code.
C17_HandleDiscipline ==
    /\ Cardinality(held) <= 1
    /\ held # {} => rf_device # None /\ held = {rf_device[1]}
    /\ sc_pc \in {"idle", "raised"} => held = {}

\* the driver raised in tx_code while the handle was held, and the
\* exception has left send_code
C17_Witness ==
    sc_pc = "raised" /\ sc_exc = Exc("RuntimeError", "tx_code") /\ held = {}

\* the LightSwitch of the registry, now and before the last callback
Light == entities[LightIx(entities)]
LightBefore == pre[LightIx(pre)]

\* C19: with the bridge the only publisher to the stateTopic of a
\* LightSwitch and its publishes delivered back in publish order, whenever
\* no publish is in flight the state of the LightSwitch is the payload of
\* the bridge's last publish to stateTopic; a message changes the state only
\* if it is an echo on stateTopic or a brightness command (the race fix), an
\* "ON"/"OFF" command never does.
C19_EchoConvergence ==
    /\ (inflight = <<>> /\ last_pub # None) => Light.state = last_pub
    /\ (Handled /\ Light.state # LightBefore.state) =>
          \/ ev.topic = Light.state_topic /\ Light.state = Some(ev.payload)
          \/ ev.topic = Light.brightness_command_topic /\ Light.state = Some("ON")
    /\ (Handled /\ ev.topic = Light.command_topic) => Light.state = LightBefore.state

\* "OFF" was published after "ON", both echoes are back and the state is "OFF"
C19_Witness ==
    /\ inflight = <<>> /\ last_pub = Some("OFF") /\ Light.state = Some("OFF")
    /\ Handled /\ ev.topic = Light.state_topic /\ LightBefore.state = Some("ON")

\* C20: a LightSwitch whose brightness level is one of 1..N and that handles
\* an "ON" command after an "OFF" command, with no "ON" and no brightness
\* command in between, transmits the on-code and right after it the code of
\* its brightness level, whether or not the echo of the published "OFF" has
\* been delivered before the "ON" command.
C20_ReapplyOnPowerOn ==
    [][ (/\ last_cmd = "OFF"
         /\ Light.brightness_state # None
         /\ Light.brightness_state[1] \in 1..Len(Light.brightness_codes)
         /\ ev'.kind = "message" /\ ev'.topic = Light.command_topic /\ ev'.payload = "ON"
         /\ last_cmd' = "ON") =>
            /\ Len(out') >= 2
            /\ Shape(out')[1] = T(Light.rf_code_on)
            /\ Shape(out')[2] = T(Light.brightness_codes[Light.brightness_state[1]]) ]_vars

====
